---- MODULE Spec2Model ----
(***************************************************************************)
(* Model of the catering calculator (src/app.py): the order-line list kept *)
(* in the session state, the handlers that change it (add, edit, save,     *)
(* cancel, remove, clear), and the output pipeline that every script run   *)
(* ends with: compute_buckets_and_servings followed by                     *)
(* apply_guest_requested_toggles.                                          *)
(***************************************************************************)
EXTENDS Integers, Sequences, FiniteSets, TLC

VARIABLES lines, edit_idx, req_plates, req_utensils, req_napkins, headcount,
          out, last, prep

vars == <<lines, edit_idx, req_plates, req_utensils, req_napkins, headcount,
          out, last, prep>>

(***************************************************************************)
(* Bounds of the model.                                                    *)
(***************************************************************************)
\* longest order-line list the add handlers may build
MaxLines == 2
\* largest quantity typed into a quantity input (the inputs have min_value=1)
MaxQty == 4
\* largest sum of the quantities of an order (Python ints are unbounded)
MaxOrderQty == 3
\* farthest apart, in places on the menu of the page, that two lines of an
\* order built by the handlers lie
MaxSpread == 1
\* largest headcount typed into the headcount input
MaxHeadcount == 1
\* largest sum of the quantities of a list handed to the aggregation alone
MaxAggQty == 2

\* Python's None, where a string may stand
None == "None"
\* an Optional[int] or Optional[OrderLine]: <<>> is None, <<v>> is the value v
Nothing == <<>>
Some(v) == <<v>>

(***************************************************************************)
(* Naming and core choices.                                                *)
(***************************************************************************)
POTATOES_NAME == "Red Pots"
HAM_NAME == "Sampler Ham"

PROTEINS == <<"Bacon", "Pork Sausage Links", HAM_NAME>>
GRIDDLE_CHOICES == <<"Buttermilk Pancakes", "French Toast">>

\* COMBO_TIERS with the Medium and Large recipes left as copies of Small
COMBO_TIERS_AllSmall ==
  [t \in {"Small Combo Box", "Medium Combo Box", "Large Combo Box"} |->
     [servings |-> 10, eggs_oz |-> 40, red_pots_oz |-> 60,
      protein_pcs |-> 20, pancakes_pcs |-> 20, ft_slices |-> 10,
      half_pans_eggs |-> 1, half_pans_red_pots |-> 1,
      ihop_large_bases_protein |-> 1, half_pans_pancakes |-> 1,
      half_pans_ft |-> 2, butter_packets |-> 10,
      syrup_packets |-> 10, ketchup_packets |-> 10,
      powdered_sugar_cups_2oz |-> 1, serving_forks |-> 2,
      serving_tongs |-> 2, serving_spoons |-> 0]]

COMBO_TIERS ==
  [t \in {"Small Combo Box", "Medium Combo Box", "Large Combo Box"} |->
     CASE t = "Small Combo Box" ->
            [servings |-> 10, eggs_oz |-> 40, red_pots_oz |-> 60,
             protein_pcs |-> 20, pancakes_pcs |-> 20, ft_slices |-> 10,
             half_pans_eggs |-> 1, half_pans_red_pots |-> 1,
             ihop_large_bases_protein |-> 1, half_pans_pancakes |-> 1,
             half_pans_ft |-> 2, butter_packets |-> 10,
             syrup_packets |-> 10, ketchup_packets |-> 10,
             powdered_sugar_cups_2oz |-> 1, serving_forks |-> 2,
             serving_tongs |-> 2, serving_spoons |-> 0]
       [] t = "Medium Combo Box" ->
            [servings |-> 20, eggs_oz |-> 80, red_pots_oz |-> 120,
             protein_pcs |-> 40, pancakes_pcs |-> 40, ft_slices |-> 20,
             half_pans_eggs |-> 2, half_pans_red_pots |-> 2,
             ihop_large_bases_protein |-> 2, half_pans_pancakes |-> 2,
             half_pans_ft |-> 4, butter_packets |-> 20,
             syrup_packets |-> 20, ketchup_packets |-> 20,
             powdered_sugar_cups_2oz |-> 2, serving_forks |-> 2,
             serving_tongs |-> 2, serving_spoons |-> 0]
       [] t = "Large Combo Box" ->
            [servings |-> 40, eggs_oz |-> 160, red_pots_oz |-> 240,
             protein_pcs |-> 80, pancakes_pcs |-> 80, ft_slices |-> 40,
             half_pans_eggs |-> 4, half_pans_red_pots |-> 4,
             ihop_large_bases_protein |-> 4, half_pans_pancakes |-> 4,
             half_pans_ft |-> 8, butter_packets |-> 40,
             syrup_packets |-> 40, ketchup_packets |-> 40,
             powdered_sugar_cups_2oz |-> 4, serving_forks |-> 8,
             serving_tongs |-> 5, serving_spoons |-> 0]]

\* the tiers in the order of the dict (list(COMBO_TIERS.keys()))
COMBO_TIER_KEYS == <<"Small Combo Box", "Medium Combo Box", "Large Combo Box">>

COLD_BEV_TYPES == <<"Apple Juice", "Orange Juice", "Iced Tea", "Lemonade", "Soda">>

MAIN_ITEMS ==
  << <<"steakburgers_10", "Steakburgers (10 pcs)">>,
     <<"crispy_chx_sand_10", "Crispy Chicken Sandwiches (10 pcs)">>,
     <<"grilled_chx_sand_10", "Grilled Chicken Sandwiches (10 pcs)">>,
     <<"chicken_strips_40", "Chicken Strips (40 pcs)">>,
     <<"cold_beverage", "Cold Beverage (128 oz)">>,
     <<"coffee_box", "Coffee Box (96 oz)">> >>

MAIN_LABELS == [i \in 1..Len(MAIN_ITEMS) |-> MAIN_ITEMS[i][2]]

MAIN_LABEL_TO_ID ==
  [l \in {MAIN_ITEMS[i][2] : i \in 1..Len(MAIN_ITEMS)} |->
     MAIN_ITEMS[CHOOSE i \in 1..Len(MAIN_ITEMS) : MAIN_ITEMS[i][2] = l][1]]

\* MAIN_SERVINGS with the two beverage items entered as 10 servings each
MAIN_SERVINGS_WithBeverages ==
  [i \in {"steakburgers_10", "crispy_chx_sand_10", "grilled_chx_sand_10",
          "chicken_strips_40", "cold_beverage", "coffee_box"} |-> 10]

MAIN_SERVINGS ==
  [i \in {"steakburgers_10", "crispy_chx_sand_10", "grilled_chx_sand_10",
          "chicken_strips_40"} |-> 10]

\* the (item_id, label, payload) triples of ALACARTE_GROUPS, in order
ALACARTE_ITEMS ==
  << <<"pancakes_20", "Buttermilk Pancakes (20 pcs)",
         [pancakes_pcs |-> 20, servings |-> 20]>>,
     <<"ft_10_slices", "French Toast (10 slices)",
         [ft_slices |-> 10, servings |-> 10]>>,
     <<"eggs_40oz", "Scrambled Eggs (40 oz)",
         [eggs_oz |-> 40, servings |-> 10]>>,
     <<"red_pots_40oz", POTATOES_NAME \o " (40 oz)",
         [red_pots_oz |-> 40, servings |-> 10]>>,
     <<"bacon_20", "Bacon (20 pcs)",
         [bacon_pcs |-> 20, servings |-> 10]>>,
     <<"sausage_20", "Pork Sausage Links (20 pcs)",
         [sausage_pcs |-> 20, servings |-> 10]>>,
     <<"ham_20", HAM_NAME \o " (20 pcs)",
         [ham_pcs |-> 20, servings |-> 10]>>,
     <<"fries_60oz", "French Fries (60 oz)",
         [fries_oz |-> 60, servings |-> 10]>>,
     <<"onion_rings_approx", "Onion Rings (approx. 24 rings)",
         [onion_rings_rings |-> 24, servings |-> 10]>> >>

ALACARTE_IDS == {ALACARTE_ITEMS[i][1] : i \in 1..Len(ALACARTE_ITEMS)}

ALACARTE_LOOKUP ==
  [id \in ALACARTE_IDS |->
     LET i == CHOOSE j \in 1..Len(ALACARTE_ITEMS) : ALACARTE_ITEMS[j][1] = id
     IN  [label |-> ALACARTE_ITEMS[i][2], payload |-> ALACARTE_ITEMS[i][3]]]

ALACARTE_LABELS == [i \in 1..Len(ALACARTE_ITEMS) |-> ALACARTE_ITEMS[i][2]]

AL_LABEL_TO_ID ==
  [l \in {ALACARTE_ITEMS[i][2] : i \in 1..Len(ALACARTE_ITEMS)} |->
     ALACARTE_ITEMS[CHOOSE i \in 1..Len(ALACARTE_ITEMS) :
                       ALACARTE_ITEMS[i][2] = l][1]]
(***************************************************************************)
(* Data model: LineKey and OrderLine.                                      *)
(***************************************************************************)
LineKey(kind, item_id, protein, griddle, beverage_type) ==
  [kind |-> kind, item_id |-> item_id, protein |-> protein,
   griddle |-> griddle, beverage_type |-> beverage_type]

OrderLine(key, label, qty, canon_id) ==
  [key |-> key, label |-> label, qty |-> qty, canon_id |-> canon_id]

(***************************************************************************)
(* Helpers.                                                                *)
(***************************************************************************)
\* str.lower() over the strings of the catalog that are not lower case
\* already; no catalog string has leading or trailing blanks to strip
Lower ==
  [s \in {"Small Combo Box", "Medium Combo Box", "Large Combo Box",
          "Bacon", "Pork Sausage Links", "Sampler Ham",
          "Buttermilk Pancakes", "French Toast",
          "Apple Juice", "Orange Juice", "Iced Tea", "Lemonade", "Soda"} |->
     CASE s = "Small Combo Box" -> "small combo box"
       [] s = "Medium Combo Box" -> "medium combo box"
       [] s = "Large Combo Box" -> "large combo box"
       [] s = "Bacon" -> "bacon"
       [] s = "Pork Sausage Links" -> "pork sausage links"
       [] s = "Sampler Ham" -> "sampler ham"
       [] s = "Buttermilk Pancakes" -> "buttermilk pancakes"
       [] s = "French Toast" -> "french toast"
       [] s = "Apple Juice" -> "apple juice"
       [] s = "Orange Juice" -> "orange juice"
       [] s = "Iced Tea" -> "iced tea"
       [] s = "Lemonade" -> "lemonade"
       [] s = "Soda" -> "soda"]

\* _norm: (s or "").strip().lower()
Norm(s) ==
  IF s = None THEN ""
  ELSE IF s \in DOMAIN Lower THEN Lower[s] ELSE s

build_canon_id(key) ==
  IF key.kind = "combo"
  THEN "combo|" \o Norm(key.item_id) \o "|" \o Norm(key.protein)
               \o "|" \o Norm(key.griddle)
  ELSE IF key.kind \in {"main", "alacarte"}
  THEN IF Norm(key.item_id) = "cold_beverage"
       THEN key.kind \o "|cold_beverage|" \o Norm(key.beverage_type)
       ELSE key.kind \o "|" \o Norm(key.item_id)
  ELSE Norm(key.kind) \o "|" \o Norm(key.item_id)

\* d.get(k, 0)
Get(d, k) == IF k \in DOMAIN d THEN d[k] ELSE 0

\* _add with the old value forgotten: d[k] = v
AddOverwrite(d, k, v) ==
  [x \in (DOMAIN d) \cup {k} |-> IF x = k THEN v ELSE d[x]]

\* _add: d[k] = d.get(k, 0) + v
Add(d, k, v) ==
  [x \in (DOMAIN d) \cup {k} |-> IF x = k THEN Get(d, k) + v ELSE d[x]]

\* _drop: remove k from d when present
Drop(d, k) == [x \in (DOMAIN d) \ {k} |-> d[x]]

\* the empty dict
EmptyDict == [x \in {} |-> 0]
(***************************************************************************)
(* Buckets + servings.  A line's effect is the sequence, in source order,  *)
(* of the calls it makes: <<bucket, key, amount>> stands for one call of   *)
(* F, P, G, S or C, and <<"servings", "", n>> for total_servings += n.     *)
(***************************************************************************)
Cond(b, ops) == IF b THEN ops ELSE <<>>

\* the protein branch of a combo line: no branch for any other protein
ProteinOpsNoHam(spec, protein, qty) ==
  IF protein = "Bacon"
  THEN << <<"F", "Bacon (pcs)", spec.protein_pcs * qty>>,
          <<"P", "IHOP Large Plastic Base",
                 spec.ihop_large_bases_protein * qty>> >>
  ELSE IF protein = "Pork Sausage Links"
  THEN << <<"F", "Pork Sausage Links (pcs)", spec.protein_pcs * qty>>,
          <<"P", "IHOP Large Plastic Base",
                 spec.ihop_large_bases_protein * qty>> >>
  ELSE <<>>

ProteinOps(spec, protein, qty) ==
  IF protein = "Bacon"
  THEN << <<"F", "Bacon (pcs)", spec.protein_pcs * qty>>,
          <<"P", "IHOP Large Plastic Base",
                 spec.ihop_large_bases_protein * qty>> >>
  ELSE IF protein = "Pork Sausage Links"
  THEN << <<"F", "Pork Sausage Links (pcs)", spec.protein_pcs * qty>>,
          <<"P", "IHOP Large Plastic Base",
                 spec.ihop_large_bases_protein * qty>> >>
  ELSE IF protein = HAM_NAME
  THEN << <<"F", HAM_NAME \o " (pcs)", spec.protein_pcs * qty>>,
          <<"P", "IHOP Large Plastic Base",
                 spec.ihop_large_bases_protein * qty>> >>
  ELSE <<>>

\* the griddle branch of a combo line: anything but pancakes is French toast
GriddleOpsBoth(spec, griddle, qty) ==
  << <<"F", "Buttermilk Pancakes (pcs)", spec.pancakes_pcs * qty>>,
     <<"P", "Aluminum 1/2 Pans", spec.half_pans_pancakes * qty>> >>
  \o (IF griddle = "Buttermilk Pancakes" THEN <<>>
      ELSE << <<"F", "French Toast (slices)", spec.ft_slices * qty>>,
              <<"P", "Aluminum 1/2 Pans", spec.half_pans_ft * qty>>,
              <<"C", "Powdered Sugar Cups (2 oz)",
                     spec.powdered_sugar_cups_2oz * qty>> >>)

\* the griddle branch with the powdered sugar left out of the scaling
GriddleOpsSugarUnscaled(spec, griddle, qty) ==
  IF griddle = "Buttermilk Pancakes"
  THEN << <<"F", "Buttermilk Pancakes (pcs)", spec.pancakes_pcs * qty>>,
          <<"P", "Aluminum 1/2 Pans", spec.half_pans_pancakes * qty>> >>
  ELSE << <<"F", "French Toast (slices)", spec.ft_slices * qty>>,
          <<"P", "Aluminum 1/2 Pans", spec.half_pans_ft * qty>>,
          <<"C", "Powdered Sugar Cups (2 oz)",
                 spec.powdered_sugar_cups_2oz>> >>

GriddleOps(spec, griddle, qty) ==
  IF griddle = "Buttermilk Pancakes"
  THEN << <<"F", "Buttermilk Pancakes (pcs)", spec.pancakes_pcs * qty>>,
          <<"P", "Aluminum 1/2 Pans", spec.half_pans_pancakes * qty>> >>
  ELSE << <<"F", "French Toast (slices)", spec.ft_slices * qty>>,
          <<"P", "Aluminum 1/2 Pans", spec.half_pans_ft * qty>>,
          <<"C", "Powdered Sugar Cups (2 oz)",
                 spec.powdered_sugar_cups_2oz * qty>> >>

\* a combo line with the serving spoons added whatever their count
ComboOpsSpoonsAlways(line) ==
  LET qty == line.qty
      protein == line.key.protein
      griddle == line.key.griddle
      spec == COMBO_TIERS[line.key.item_id]
  IN  << <<"servings", "", spec.servings * qty>>,
         <<"F", "Scrambled Eggs (oz)", spec.eggs_oz * qty>>,
         <<"F", POTATOES_NAME \o " (oz)", spec.red_pots_oz * qty>> >>
      \o ProteinOps(spec, protein, qty)
      \o GriddleOps(spec, griddle, qty)
      \o << <<"P", "Aluminum 1/2 Pans",
                   (spec.half_pans_eggs + spec.half_pans_red_pots) * qty>>,
            <<"C", "Butter Packets", spec.butter_packets * qty>>,
            <<"C", "Syrup Packets", spec.syrup_packets * qty>>,
            <<"C", "Ketchup Packets", spec.ketchup_packets * qty>>,
            <<"S", "Serving Tongs", spec.serving_tongs * qty>>,
            <<"S", "Serving Forks", spec.serving_forks * qty>>,
            <<"S", "Serving Spoons", spec.serving_spoons * qty>> >>

ComboOps(line) ==
  LET qty == line.qty
      protein == line.key.protein
      griddle == line.key.griddle
      spec == COMBO_TIERS[line.key.item_id]
  IN  << <<"servings", "", spec.servings * qty>>,
         <<"F", "Scrambled Eggs (oz)", spec.eggs_oz * qty>>,
         <<"F", POTATOES_NAME \o " (oz)", spec.red_pots_oz * qty>> >>
      \o ProteinOps(spec, protein, qty)
      \o GriddleOps(spec, griddle, qty)
      \o << <<"P", "Aluminum 1/2 Pans",
                   (spec.half_pans_eggs + spec.half_pans_red_pots) * qty>>,
            <<"C", "Butter Packets", spec.butter_packets * qty>>,
            <<"C", "Syrup Packets", spec.syrup_packets * qty>>,
            <<"C", "Ketchup Packets", spec.ketchup_packets * qty>>,
            <<"S", "Serving Tongs", spec.serving_tongs * qty>>,
            <<"S", "Serving Forks", spec.serving_forks * qty>> >>
      \o Cond(spec.serving_spoons > 0,
              << <<"S", "Serving Spoons", spec.serving_spoons * qty>> >>)

\* the bundle of a sandwich or burger item, with the test of the first
\* branch turned round
SandwichOpsSwapped(item, qty) ==
  << (IF item # "steakburgers_10"
      THEN <<"F", "Steakburger Patties (pcs)", 10 * qty>>
      ELSE <<"F", "Chicken Sandwiches (pcs)", 10 * qty>>),
     <<"F", "Buns (pcs)", 10 * qty>>,
     <<"F", "Tomato Slices (pcs)", 20 * qty>>,
     <<"F", "Red Onion Rings (pcs)", 20 * qty>>,
     <<"F", "Lettuce Leaves (pcs)", 10 * qty>>,
     <<"F", "Pickle Chips (pcs)", 50 * qty>>,
     <<"P", "Aluminum 1/2 Pans", 2 * qty>>,
     <<"P", "Soup Cups (8 oz)", 3 * qty>>,
     <<"S", "Serving Tongs", 2 * qty>>,
     <<"S", "Serving Spoons", 2 * qty>>,
     <<"C", "Mayo Packets", 10 * qty>>,
     <<"C", "Ketchup Packets", 10 * qty>>,
     <<"C", "Mustard Packets", 10 * qty>> >>

\* the bundle of a sandwich or burger item
SandwichOps(item, qty) ==
  << (IF item = "steakburgers_10"
      THEN <<"F", "Steakburger Patties (pcs)", 10 * qty>>
      ELSE <<"F", "Chicken Sandwiches (pcs)", 10 * qty>>),
     <<"F", "Buns (pcs)", 10 * qty>>,
     <<"F", "Tomato Slices (pcs)", 20 * qty>>,
     <<"F", "Red Onion Rings (pcs)", 20 * qty>>,
     <<"F", "Lettuce Leaves (pcs)", 10 * qty>>,
     <<"F", "Pickle Chips (pcs)", 50 * qty>>,
     <<"P", "Aluminum 1/2 Pans", 2 * qty>>,
     <<"P", "Soup Cups (8 oz)", 3 * qty>>,
     <<"S", "Serving Tongs", 2 * qty>>,
     <<"S", "Serving Spoons", 2 * qty>>,
     <<"C", "Mayo Packets", 10 * qty>>,
     <<"C", "Ketchup Packets", 10 * qty>>,
     <<"C", "Mustard Packets", 10 * qty>> >>

MainOps(line) ==
  LET qty == line.qty
      item == line.key.item_id
      bev == IF line.key.beverage_type = None THEN "Cold Beverage"
             ELSE line.key.beverage_type
  IN  Cond(item \in DOMAIN MAIN_SERVINGS,
           << <<"servings", "", MAIN_SERVINGS[item] * qty>> >>)
      \o (IF item \in {"steakburgers_10", "crispy_chx_sand_10",
                       "grilled_chx_sand_10"}
          THEN SandwichOps(item, qty)
          ELSE IF item = "chicken_strips_40"
          THEN << <<"F", "Chicken Strips (pcs)", 40 * qty>>,
                  <<"P", "Aluminum 1/2 Pans", 1 * qty>>,
                  <<"P", "Soup Cups (8 oz)", 3 * qty>>,
                  <<"S", "Serving Tongs", 1 * qty>>,
                  <<"S", "Serving Spoons", 3 * qty>> >>
          ELSE IF item = "cold_beverage"
          THEN << <<"F", "Cold Beverage (128 oz) - " \o bev, 1 * qty>>,
                  <<"P", "Beverage Pouches", 1 * qty>>,
                  <<"G", "Cold Cups", 10 * qty>>,
                  <<"G", "Cold Lids", 10 * qty>>,
                  <<"G", "Straws", 10 * qty>> >>
          ELSE IF item = "coffee_box"
          THEN << <<"F", "Coffee Box (96 oz)", 1 * qty>>,
                  <<"P", "Hot Beverage Containers", 1 * qty>>,
                  <<"G", "Hot Cups", 10 * qty>>,
                  <<"G", "Hot Lids", 10 * qty>>,
                  <<"G", "Sleeves", 10 * qty>>,
                  <<"G", "Stirrers", 10 * qty>>,
                  <<"C", "Sugar Packets", 10 * qty>>,
                  <<"C", "Creamers", 10 * qty>> >>
          ELSE <<>>)

AlacarteOps(line) ==
  LET qty == line.qty
      spec == ALACARTE_LOOKUP[line.key.item_id].payload
      has(f) == f \in DOMAIN spec
  IN  << <<"servings", "",
             (IF has("servings") THEN spec.servings ELSE 0) * qty>> >>
      \o Cond(has("pancakes_pcs"),
           << <<"F", "Buttermilk Pancakes (pcs)", spec.pancakes_pcs * qty>>,
              <<"P", "Aluminum 1/2 Pans", 2 * qty>>,
              <<"C", "Butter Packets", 20 * qty>>,
              <<"C", "Syrup Packets", 20 * qty>>,
              <<"S", "Serving Tongs", 2 * qty>> >>)
      \o Cond(has("ft_slices"),
           << <<"F", "French Toast (slices)", spec.ft_slices * qty>>,
              <<"P", "Aluminum 1/2 Pans", 2 * qty>>,
              <<"C", "Butter Packets", 10 * qty>>,
              <<"C", "Syrup Packets", 10 * qty>>,
              <<"C", "Powdered Sugar Cups (2 oz)", 1 * qty>>,
              <<"S", "Serving Tongs", 1 * qty>> >>)
      \o Cond(has("eggs_oz"),
           << <<"F", "Scrambled Eggs (oz)", spec.eggs_oz * qty>>,
              <<"P", "Aluminum 1/2 Pans", 1 * qty>> >>)
      \o Cond(has("red_pots_oz"),
           << <<"F", POTATOES_NAME \o " (oz)", spec.red_pots_oz * qty>>,
              <<"P", "Aluminum 1/2 Pans", 1 * qty>> >>)
      \o Cond(has("bacon_pcs"),
           << <<"F", "Bacon (pcs)", spec.bacon_pcs * qty>>,
              <<"P", "IHOP Large Plastic Base", 1 * qty>> >>)
      \o Cond(has("sausage_pcs"),
           << <<"F", "Pork Sausage Links (pcs)", spec.sausage_pcs * qty>>,
              <<"P", "IHOP Large Plastic Base", 1 * qty>> >>)
      \o Cond(has("ham_pcs"),
           << <<"F", HAM_NAME \o " (pcs)", spec.ham_pcs * qty>>,
              <<"P", "IHOP Large Plastic Base", 1 * qty>> >>)
      \o Cond(has("fries_oz"),
           << <<"F", "French Fries (oz)", spec.fries_oz * qty>>,
              <<"P", "Aluminum 1/2 Pans", 1 * qty>>,
              <<"S", "Serving Tongs", 1 * qty>>,
              <<"C", "Ketchup Packets", 10 * qty>> >>)
      \o Cond(has("onion_rings_rings"),
           << <<"F", "Onion Rings (rings)", spec.onion_rings_rings * qty>>,
              <<"P", "Aluminum 1/2 Pans", 2 * qty>>,
              <<"S", "Serving Tongs", 1 * qty>>,
              <<"C", "Ketchup Packets", 10 * qty>> >>)

\* the dict lookup of the line's branch raises KeyError
LineRaises(line) ==
  \/ line.key.kind = "combo" /\ line.key.item_id \notin DOMAIN COMBO_TIERS
  \/ line.key.kind = "alacarte" /\ line.key.item_id \notin ALACARTE_IDS

\* the calls one iteration of the loop over the lines makes
LineOps(line) ==
  IF line.key.kind = "combo" THEN ComboOps(line)
  ELSE IF line.key.kind = "main" THEN MainOps(line)
  ELSE IF line.key.kind = "alacarte" THEN AlacarteOps(line)
  ELSE <<>>

EmptyTotals ==
  [error |-> FALSE, total_servings |-> 0, food |-> EmptyDict,
   packaging |-> EmptyDict, guestware |-> EmptyDict, service |-> EmptyDict,
   cond |-> EmptyDict]

\* the outcome of a run that ended in an exception: nothing is returned
ErrorTotals == [EmptyTotals EXCEPT !.error = TRUE]

ApplyOp(t, op) ==
  CASE op[1] = "servings" -> [t EXCEPT !.total_servings = @ + op[3]]
    [] op[1] = "F" -> [t EXCEPT !.food = Add(@, op[2], op[3])]
    [] op[1] = "P" -> [t EXCEPT !.packaging = Add(@, op[2], op[3])]
    [] op[1] = "G" -> [t EXCEPT !.guestware = Add(@, op[2], op[3])]
    [] op[1] = "S" -> [t EXCEPT !.service = Add(@, op[2], op[3])]
    [] op[1] = "C" -> [t EXCEPT !.cond = Add(@, op[2], op[3])]

RECURSIVE ApplyOps(_, _)
ApplyOps(t, ops) ==
  IF ops = <<>> THEN t ELSE ApplyOps(ApplyOp(t, Head(ops)), Tail(ops))

RECURSIVE ComputeFrom(_, _)
ComputeFrom(t, ls) ==
  IF ls = <<>> THEN t
  ELSE IF LineRaises(Head(ls)) THEN ErrorTotals
  ELSE ComputeFrom(ApplyOps(t, LineOps(Head(ls))), Tail(ls))

compute_buckets_and_servings(ls) == ComputeFrom(EmptyTotals, ls)

\* the three serving utensils the utensils toggle governs
SERVING_UTENSILS == <<"Serving Tongs", "Serving Spoons", "Serving Forks">>

RECURSIVE DropAll(_, _)
DropAll(d, ks) == IF ks = <<>> THEN d ELSE DropAll(Drop(d, Head(ks)), Tail(ks))

\* apply_guest_requested_toggles with the plates read off the napkins toggle
apply_toggles_plates_by_napkins(t, plates, utensils, napkins) ==
  LET ts == t.total_servings
      g1 == IF napkins /\ ts > 0 THEN Add(t.guestware, "Paper Plates", ts)
            ELSE t.guestware
      g2 == IF napkins /\ ts > 0 THEN Add(g1, "Napkins", ts) ELSE g1
      g3 == IF utensils /\ ts > 0 THEN Add(g2, "Wrapped Cutlery Sets", ts)
            ELSE g2
      s1 == IF utensils /\ ts > 0 THEN t.service
            ELSE DropAll(t.service, SERVING_UTENSILS)
  IN  [t EXCEPT !.guestware = g3, !.service = s1]

\* apply_guest_requested_toggles with the loop of _drop run on every call
apply_toggles_always_drop(t, plates, utensils, napkins) ==
  LET ts == t.total_servings
      g1 == IF plates /\ ts > 0 THEN Add(t.guestware, "Paper Plates", ts)
            ELSE t.guestware
      g2 == IF napkins /\ ts > 0 THEN Add(g1, "Napkins", ts) ELSE g1
      g3 == IF utensils /\ ts > 0 THEN Add(g2, "Wrapped Cutlery Sets", ts)
            ELSE g2
      s1 == DropAll(t.service, SERVING_UTENSILS)
  IN  [t EXCEPT !.guestware = g3, !.service = s1]

\* apply_guest_requested_toggles without the total_servings > 0 tests
apply_toggles_no_servings_test(t, plates, utensils, napkins) ==
  LET ts == t.total_servings
      g1 == IF plates THEN Add(t.guestware, "Paper Plates", ts)
            ELSE t.guestware
      g2 == IF napkins THEN Add(g1, "Napkins", ts) ELSE g1
      g3 == IF utensils THEN Add(g2, "Wrapped Cutlery Sets", ts) ELSE g2
      s1 == IF utensils THEN t.service
            ELSE DropAll(t.service, SERVING_UTENSILS)
  IN  [t EXCEPT !.guestware = g3, !.service = s1]

\* apply_guest_requested_toggles with the utensils toggle, when off, taking
\* the straws and stirrers away as well
apply_toggles_drop_stirrers(t, plates, utensils, napkins) ==
  LET ts == t.total_servings
      g1 == IF plates /\ ts > 0 THEN Add(t.guestware, "Paper Plates", ts)
            ELSE t.guestware
      g2 == IF napkins /\ ts > 0 THEN Add(g1, "Napkins", ts) ELSE g1
      g3 == IF utensils /\ ts > 0 THEN Add(g2, "Wrapped Cutlery Sets", ts)
            ELSE DropAll(g2, <<"Straws", "Stirrers">>)
      s1 == IF utensils /\ ts > 0 THEN t.service
            ELSE DropAll(t.service, SERVING_UTENSILS)
  IN  [t EXCEPT !.guestware = g3, !.service = s1]

\* apply_guest_requested_toggles mutates guestware and service in place;
\* the result is the totals with the two dicts as they are afterwards
apply_guest_requested_toggles(t, plates, utensils, napkins) ==
  LET ts == t.total_servings
      g1 == IF plates /\ ts > 0 THEN Add(t.guestware, "Paper Plates", ts)
            ELSE t.guestware
      g2 == IF napkins /\ ts > 0 THEN Add(g1, "Napkins", ts) ELSE g1
      g3 == IF utensils /\ ts > 0 THEN Add(g2, "Wrapped Cutlery Sets", ts)
            ELSE g2
      s1 == IF utensils /\ ts > 0 THEN t.service
            ELSE DropAll(t.service, SERVING_UTENSILS)
  IN  [t EXCEPT !.guestware = g3, !.service = s1]
(***************************************************************************)
(* Output pipeline: the "Day-Of Output" section that ends a script run.    *)
(* A handler that ends in st.rerun() stops its run before that section;    *)
(* the page is pending until the run that follows renders it.              *)
(***************************************************************************)
Pending == [state |-> "pending"]
NoOutput == [state |-> "empty"]

\* agg is what compute_buckets_and_servings returned, as it was returned.
\* The call of apply_guest_requested_toggles is handed the guestware and
\* service dicts of agg themselves and its value is not kept (the function
\* has no return statement: returned is None); handed is what those two
\* dicts hold once the call is over, and totals is what the page goes on to
\* read: total_servings, food, packaging and cond as returned, guestware
\* and service out of the handed dicts.
Output(ls, plates, utensils, napkins) ==
  IF ls = <<>> THEN NoOutput
  ELSE LET agg == compute_buckets_and_servings(ls)
           after == IF agg.error THEN agg
                    ELSE apply_guest_requested_toggles(
                           agg, plates, utensils, napkins)
           handed == [guestware |-> after.guestware,
                      service |-> after.service]
       IN  [state |-> "shown", agg |-> agg, returned |-> Nothing,
            handed |-> handed,
            totals |-> [agg EXCEPT !.guestware = handed.guestware,
                                   !.service = handed.service]]

(***************************************************************************)
(* Session state and the order handlers.                                   *)
(***************************************************************************)
\* a pop that removes nothing
PopNothing(ls, idx) == ls

\* st.session_state.lines.pop(idx), idx counted from 0
Pop(ls, idx) == SubSeq(ls, 1, idx) \o SubSeq(ls, idx + 2, Len(ls))

\* the lines holding new_line's canon_id, by position
Matches(ls, new_line) ==
  {i \in 1..Len(ls) : ls[i].canon_id = new_line.canon_id}

\* merge_or_add_line without its loop: always append
merge_or_add_line_append(ls, new_line) == Append(ls, new_line)

\* merge_or_add_line with qty = in place of qty +=
merge_or_add_line_overwrite(ls, new_line) ==
  IF Matches(ls, new_line) # {}
  THEN LET i == CHOOSE j \in Matches(ls, new_line) :
                   \A k \in Matches(ls, new_line) : j <= k
       IN  [ls EXCEPT ![i].qty = new_line.qty]
  ELSE Append(ls, new_line)

\* the first line holding new_line's canon_id takes its quantity; with
\* none, new_line goes to the end
merge_or_add_line(ls, new_line) ==
  IF Matches(ls, new_line) # {}
  THEN LET i == CHOOSE j \in Matches(ls, new_line) :
                   \A k \in Matches(ls, new_line) : j <= k
       IN  [ls EXCEPT ![i].qty = @ + new_line.qty]
  ELSE Append(ls, new_line)

\* the line each add handler and the edit panel builds for its selection
ComboLine(tier, protein, griddle, qty) ==
  LET key == LineKey("combo", tier, protein, griddle, None)
  IN  OrderLine(key, tier \o " | " \o protein \o " | " \o griddle, qty,
                build_canon_id(key))

MainLine(main_label, bev_type, qty) ==
  LET item_id == MAIN_LABEL_TO_ID[main_label]
      key == IF item_id = "cold_beverage"
             THEN LineKey("main", item_id, None, None, bev_type)
             ELSE LineKey("main", item_id, None, None, None)
      label == IF item_id = "cold_beverage"
               THEN main_label \o " | " \o bev_type ELSE main_label
  IN  OrderLine(key, label, qty, build_canon_id(key))

AlacarteLine(al_label, qty) ==
  LET key == LineKey("alacarte", AL_LABEL_TO_ID[al_label], None, None, None)
  IN  OrderLine(key, al_label, qty, build_canon_id(key))

Range(f) == {f[i] : i \in DOMAIN f}

\* every line the three add forms can build with quantity qty
ComboLines(qty) ==
  {ComboLine(t, p, g, qty) :
     t \in Range(COMBO_TIER_KEYS), p \in Range(PROTEINS),
     g \in Range(GRIDDLE_CHOICES)}
MainLines(qty) ==
  {MainLine(l, b, qty) : l \in Range(MAIN_LABELS), b \in Range(COLD_BEV_TYPES)}
AlacarteLines(qty) == {AlacarteLine(l, qty) : l \in Range(ALACARTE_LABELS)}
CatalogLines(qty) == ComboLines(qty) \cup MainLines(qty) \cup AlacarteLines(qty)

\* the options of the selectboxes of the add forms and of the edit panel
OfferedTiers == Range(COMBO_TIER_KEYS)
OfferedProteins == Range(PROTEINS)
OfferedGriddles == Range(GRIDDLE_CHOICES)
OfferedMainLabels == Range(MAIN_LABELS)
OfferedBevTypes == Range(COLD_BEV_TYPES)
OfferedAlLabels == Range(ALACARTE_LABELS)

RECURSIVE Flatten(_)
Flatten(ss) == IF ss = <<>> THEN <<>> ELSE Head(ss) \o Flatten(Tail(ss))

\* the canon ids of every selection of the page, in the order of its forms
\* and of the options of their selectboxes: the combos by size, protein and
\* griddle item, then the main items with the cold beverage once per type,
\* then the a la carte items
MENU ==
  Flatten([t \in 1..Len(COMBO_TIER_KEYS) |->
     Flatten([p \in 1..Len(PROTEINS) |->
        [g \in 1..Len(GRIDDLE_CHOICES) |->
           ComboLine(COMBO_TIER_KEYS[t], PROTEINS[p], GRIDDLE_CHOICES[g],
                     1).canon_id]])])
  \o Flatten([l \in 1..Len(MAIN_LABELS) |->
        IF MAIN_LABEL_TO_ID[MAIN_LABELS[l]] = "cold_beverage"
        THEN [b \in 1..Len(COLD_BEV_TYPES) |->
                MainLine(MAIN_LABELS[l], COLD_BEV_TYPES[b], 1).canon_id]
        ELSE <<MainLine(MAIN_LABELS[l], COLD_BEV_TYPES[1], 1).canon_id>>])
  \o [a \in 1..Len(ALACARTE_LABELS) |->
        AlacarteLine(ALACARTE_LABELS[a], 1).canon_id]

\* the place of a line's selection on the menu
MenuPlace(line) == CHOOSE i \in 1..Len(MENU) : MENU[i] = line.canon_id

\* no two lines of ls lie more than MaxSpread places apart on the menu
Spread(ls) ==
  LET place == [i \in 1..Len(ls) |-> MenuPlace(ls[i])]
  IN  \A i, j \in 1..Len(ls) : place[i] - place[j] <= MaxSpread

\* a quantity input with min_value=0
QtyInputsFromZero == 0..MaxQty

\* what a quantity input of an add form can hold: min_value=1, step=1
AddQtyInputs == 1..MaxQty

\* what the quantity input of the edit panel can hold: min_value=1, step=1
EditQtyInputs == 1..MaxQty

RECURSIVE SumQty(_)
SumQty(ls) == IF ls = <<>> THEN 0 ELSE Head(ls).qty + SumQty(Tail(ls))

\* the bounds on what a handler may leave behind
Within(ls) ==
  /\ Len(ls) <= MaxLines
  /\ SumQty(ls) <= MaxOrderQty
  /\ Spread(ls)

NoLast == [op |-> "init", line |-> Nothing, merged |-> FALSE]

\* no prep helper has been called
NoPrep == [fn |-> "none", arg |-> 0, result |-> Nothing]

Init ==
  /\ lines = <<>>
  /\ edit_idx = Nothing
  /\ req_plates = TRUE
  /\ req_utensils = TRUE
  /\ req_napkins = TRUE
  /\ headcount = 0
  /\ out = NoOutput
  /\ last = NoLast
  /\ prep = NoPrep

Settings == <<req_plates, req_utensils, req_napkins, headcount>>

\* st.rerun(): the handler's run stops here, the page is yet to be drawn
Rerun == out' = Pending

\* the buttons are those of a page that has been drawn
Drawn == out # Pending

\* the script run that follows a handler's st.rerun(): no button is down,
\* the run reaches the output section
Render ==
  /\ out = Pending
  /\ out' = Output(lines, req_plates, req_utensils, req_napkins)
  /\ UNCHANGED <<lines, edit_idx, Settings, last, prep>>

\* the tail shared by the three add buttons
AddLine(op, new_line) ==
  /\ Drawn
  /\ Within(merge_or_add_line(lines, new_line))
  /\ lines' = merge_or_add_line(lines, new_line)
  /\ last' = [op |-> op, line |-> Some(new_line),
              merged |-> Matches(lines, new_line) # {}]
  /\ UNCHANGED <<edit_idx, Settings, prep>>
  /\ Rerun

AddCombo ==
  \E t \in OfferedTiers, p \in OfferedProteins, g \in OfferedGriddles,
     q \in AddQtyInputs :
    AddLine("add_combo", ComboLine(t, p, g, q))

AddItem ==
  \E l \in OfferedMainLabels, b \in OfferedBevTypes, q \in AddQtyInputs :
    AddLine("add_item", MainLine(l, b, q))

AddAlacarte ==
  \E l \in OfferedAlLabels, q \in AddQtyInputs :
    AddLine("add_alacarte", AlacarteLine(l, q))

\* the pencil button of row idx
StartEdit ==
  \E idx \in 0..(Len(lines) - 1) :
    /\ Drawn
    /\ edit_idx' = Some(idx)
    /\ last' = [op |-> "edit", line |-> Nothing,
                merged |-> FALSE]
    /\ UNCHANGED <<lines, Settings, prep>>
    /\ Rerun

remove_line(idx) ==
  /\ lines' = Pop(lines, idx)
  /\ edit_idx' = IF edit_idx = Some(idx) THEN Nothing ELSE edit_idx

\* the bin button of row idx
Remove ==
  \E idx \in 0..(Len(lines) - 1) :
    /\ Drawn
    /\ remove_line(idx)
    /\ last' = [op |-> "remove", line |-> Nothing,
                merged |-> FALSE]
    /\ UNCHANGED <<Settings, prep>>
    /\ Rerun

\* the lines the edit panel of a row can build: the row keeps its kind
EditChoices(line, qty) ==
  IF line.key.kind = "combo"
  THEN {ComboLine(t, p, g, qty) :
          t \in OfferedTiers, p \in OfferedProteins, g \in OfferedGriddles}
  ELSE IF line.key.kind = "main"
  THEN {MainLine(l, b, qty) : l \in OfferedMainLabels, b \in OfferedBevTypes}
  ELSE {AlacarteLine(l, qty) : l \in OfferedAlLabels}

\* the Save button of the edit panel, shown under the row edit_idx names
Save ==
  /\ Drawn
  /\ edit_idx # Nothing
  /\ edit_idx[1] < Len(lines)
  /\ \E q \in EditQtyInputs :
       \E new_line \in EditChoices(lines[edit_idx[1] + 1], q) :
         LET popped == Pop(lines, edit_idx[1])
         IN  /\ Within(merge_or_add_line(popped, new_line))
             /\ lines' = merge_or_add_line(popped, new_line)
             /\ edit_idx' = Nothing
             /\ last' = [op |-> "save", line |-> Some(new_line),
                         merged |-> Matches(popped, new_line) # {}]
  /\ UNCHANGED <<Settings, prep>>
  /\ Rerun

\* the Cancel button of the edit panel
Cancel ==
  /\ Drawn
  /\ edit_idx # Nothing
  /\ edit_idx[1] < Len(lines)
  /\ edit_idx' = Nothing
  /\ last' = [op |-> "cancel", line |-> Nothing,
              merged |-> FALSE]
  /\ UNCHANGED <<lines, Settings, prep>>
  /\ Rerun

\* the Clear Entire Order button, shown when the order is not empty
Clear ==
  /\ Drawn
  /\ lines # <<>>
  /\ lines' = <<>>
  /\ edit_idx' = Nothing
  /\ last' = [op |-> "clear", line |-> Nothing,
              merged |-> FALSE]
  /\ UNCHANGED <<Settings, prep>>
  /\ Rerun

\* The order handlers, from the empty order, over every option of the
\* selectboxes; the orders they build are those within the bounds of
\* Within.  The settings keep their defaults here, their widgets are
\* exercised in SpecOutput.
Next ==
  \/ AddCombo
  \/ AddItem
  \/ AddAlacarte
  \/ StartEdit
  \/ Remove
  \/ Save
  \/ Cancel
  \/ Clear
  \/ Render

Spec == Init /\ [][Next]_vars
(***************************************************************************)
(* The output section under the settings widgets: the session holds a      *)
(* one-line order of any catalog entry, and each change of a toggle or of  *)
(* the headcount is a script run that draws the page with the new values.  *)
(***************************************************************************)
InitOutput ==
  /\ lines \in {<<l>> : l \in UNION {CatalogLines(q) : q \in 1..MaxQty}}
  /\ edit_idx = Nothing
  /\ req_plates = TRUE
  /\ req_utensils = TRUE
  /\ req_napkins = TRUE
  /\ headcount = 0
  /\ out = Pending
  /\ last = NoLast
  /\ prep = NoPrep

TogglePlates ==
  /\ Drawn
  /\ req_plates' = ~req_plates
  /\ out' = Output(lines, req_plates', req_utensils, req_napkins)
  /\ UNCHANGED <<lines, edit_idx, req_utensils, req_napkins, headcount, last,
               prep>>

ToggleUtensils ==
  /\ Drawn
  /\ req_utensils' = ~req_utensils
  /\ out' = Output(lines, req_plates, req_utensils', req_napkins)
  /\ UNCHANGED <<lines, edit_idx, req_plates, req_napkins, headcount, last,
               prep>>

ToggleNapkins ==
  /\ Drawn
  /\ req_napkins' = ~req_napkins
  /\ out' = Output(lines, req_plates, req_utensils, req_napkins')
  /\ UNCHANGED <<lines, edit_idx, req_plates, req_utensils, headcount, last,
               prep>>

\* the headcount input with the plates of the page counted per guest
SetHeadcountDrivesPlates ==
  /\ Drawn
  /\ \E h \in 0..MaxHeadcount :
       /\ h # headcount
       /\ headcount' = h
       /\ LET page == Output(lines, req_plates, req_utensils, req_napkins)
          IN  out' = IF page.state = "shown" /\ req_plates /\ h > 0
                     THEN [page EXCEPT !.totals.guestware =
                             AddOverwrite(@, "Paper Plates", h)]
                     ELSE page
  /\ UNCHANGED <<lines, edit_idx, req_plates, req_utensils, req_napkins, last,
               prep>>

SetHeadcount ==
  /\ Drawn
  /\ \E h \in 0..MaxHeadcount :
       /\ h # headcount
       /\ headcount' = h
  /\ out' = Output(lines, req_plates, req_utensils, req_napkins)
  /\ UNCHANGED <<lines, edit_idx, req_plates, req_utensils, req_napkins, last,
               prep>>

NextOutput ==
  \/ Render
  \/ TogglePlates
  \/ ToggleUtensils
  \/ ToggleNapkins
  \/ SetHeadcount

SpecOutput == InitOutput /\ [][NextOutput]_vars

(***************************************************************************)
(* The aggregation alone, over every list of catalog lines whose           *)
(* quantities sum to at most MaxAggQty (a line may repeat: the function    *)
(* takes any list).                                                        *)
(***************************************************************************)
RECURSIVE ListsWithin(_)
ListsWithin(budget) ==
  {<<>>} \cup
  UNION {{<<l>> \o r : l \in CatalogLines(q), r \in ListsWithin(budget - q)} :
           q \in 1..budget}

InitAgg ==
  /\ lines \in ListsWithin(MaxAggQty) \ {<<>>}
  /\ edit_idx = Nothing
  /\ req_plates = TRUE
  /\ req_utensils = TRUE
  /\ req_napkins = TRUE
  /\ headcount = 0
  /\ out = Pending
  /\ last = NoLast
  /\ prep = NoPrep

NextAgg == Render

SpecAgg == InitAgg /\ [][NextAgg]_vars

(***************************************************************************)
(* The output section for orders of one or two lines, a beverage beside a  *)
(* food item among them, under the three toggles.                          *)
(***************************************************************************)
OneOrTwoLines ==
  {<<l>> : l \in CatalogLines(1)}
    \cup {<<a, b>> : a \in CatalogLines(1), b \in CatalogLines(1)}

InitToggles ==
  /\ lines \in OneOrTwoLines
  /\ edit_idx = Nothing
  /\ req_plates = TRUE
  /\ req_utensils = TRUE
  /\ req_napkins = TRUE
  /\ headcount = 0
  /\ out = Pending
  /\ last = NoLast
  /\ prep = NoPrep

NextToggles ==
  \/ Render
  \/ TogglePlates
  \/ ToggleUtensils
  \/ ToggleNapkins

SpecToggles == InitToggles /\ [][NextToggles]_vars

(***************************************************************************)
(* The aggregation handed lines whose item id no catalog knows: alone, and *)
(* before and after a catalog line.                                        *)
(***************************************************************************)
UNKNOWN_ITEM == "mystery_item"

UnknownLine(kind, qty) ==
  LET key == IF kind = "combo"
             THEN LineKey(kind, UNKNOWN_ITEM, "Bacon", "Buttermilk Pancakes",
                          None)
             ELSE LineKey(kind, UNKNOWN_ITEM, None, None, None)
  IN  OrderLine(key, UNKNOWN_ITEM, qty, build_canon_id(key))

UnknownLines(qty) ==
  {UnknownLine(k, qty) : k \in {"combo", "main", "alacarte"}}

InitUnknown ==
  /\ lines \in
       {<<u>> : u \in UNION {UnknownLines(q) : q \in 1..MaxQty}}
         \cup {<<c, u>> : c \in CatalogLines(1), u \in UnknownLines(1)}
         \cup {<<u, c>> : c \in CatalogLines(1), u \in UnknownLines(1)}
  /\ edit_idx = Nothing
  /\ req_plates = TRUE
  /\ req_utensils = TRUE
  /\ req_napkins = TRUE
  /\ headcount = 0
  /\ out = Pending
  /\ last = NoLast
  /\ prep = NoPrep

NextUnknown == Render

SpecUnknown == InitUnknown /\ [][NextUnknown]_vars

(***************************************************************************)
(* Prep formatting helpers.  friendly_round_up works on floats; its        *)
(* arguments are taken from the grid of hundredths, the integer x standing *)
(* for the float x / 100.  The bag line takes a whole number of ounces, as *)
(* the food totals are.                                                    *)
(***************************************************************************)
\* largest argument of friendly_round_up, in hundredths
MaxHundredths == 600
\* largest total handed to bag_and_portion_line_from_oz, in ounces
MaxOz == 200

\* the defaults inc = 0.5 and tiny_over = 0.05, in hundredths
INC == 50
TINY_OVER == 5

\* The grid points x / 100, below 20.00, that lie 0.05 above a multiple of
\* 0.5 on the grid and for which the double x - nearest_down is greater
\* than the double 0.05: 0.55 - 0.5 is 0.050000000000000044.  For the other
\* grid points 0.05 above a multiple (0.05, 2.05, ..., 7.55) the difference
\* is not greater than the double 0.05.
FLOAT_DIFF_ABOVE_TINY == {55, 105, 155} \cup {805 + 50 * k : k \in 0..23}

\* x - nearest_down <= tiny_over, as the doubles decide it
DiffLeTinyOver(x, nearest_down, tiny_over) ==
  IF x - nearest_down = tiny_over
  THEN x \notin FLOAT_DIFF_ABOVE_TINY
  ELSE x - nearest_down < tiny_over

\* math.ceil(x / inc) * inc
ceil_to_increment(x, inc) == ((x + inc - 1) \div inc) * inc

friendly_round_up(x, inc, tiny_over) ==
  LET nearest_down == (x \div inc) * inc
  IN  IF DiffLeTinyOver(x, nearest_down, tiny_over) THEN nearest_down
      ELSE ceil_to_increment(x, inc)

OZ_PER_LB == 16

DIGITS == <<"0", "1", "2", "3", "4", "5", "6", "7", "8", "9">>

\* str() of a natural number
RECURSIVE Str(_)
Str(n) ==
  IF n < 10 THEN DIGITS[n + 1] ELSE Str(n \div 10) \o DIGITS[(n % 10) + 1]

\* round(num / den): the nearest integer, a tie going to the even one
RoundHalfEven(num, den) ==
  LET q == num \div den
      twice == 2 * (num % den)
  IN  IF twice < den THEN q
      ELSE IF twice > den THEN q + 1
      ELSE IF q % 2 = 0 THEN q ELSE q + 1

\* f"{v:.2f}" for v = num / den, a value the double holds exactly
Fixed2(num, den) ==
  LET h == RoundHalfEven(100 * num, den)
  IN  Str(h \div 100) \o "." \o DIGITS[((h \div 10) % 10) + 1]
        \o DIGITS[(h % 10) + 1]

\* bag_and_portion_line_from_oz without the test for an exact bag count
bag_line_no_exact_test(name, total_oz, portion_oz, bag_lb) ==
  IF total_oz = 0 THEN ""
  ELSE LET total_portions == RoundHalfEven(total_oz, portion_oz)
           full_bags == total_oz \div (bag_lb * OZ_PER_LB)
           rem_oz == total_oz - full_bags * bag_lb * OZ_PER_LB
           rem_portions == RoundHalfEven(rem_oz, portion_oz)
           bag_word == IF full_bags = 1 THEN "bag" ELSE "bags"
       IN  IF full_bags = 0
           THEN name \o ": " \o Str(total_oz) \o " oz ("
                  \o Str(total_portions) \o " portions / "
                  \o Fixed2(total_oz, OZ_PER_LB) \o " lb)"
           ELSE name \o ": " \o Str(full_bags) \o " " \o bag_word
                  \o " PLUS " \o Str(rem_oz) \o " oz ("
                  \o Str(rem_portions) \o " portions / "
                  \o Fixed2(rem_oz, OZ_PER_LB) \o " lb)"

bag_and_portion_line_from_oz(name, total_oz, portion_oz, bag_lb) ==
  IF total_oz = 0 THEN ""
  ELSE LET total_portions == RoundHalfEven(total_oz, portion_oz)
           full_bags == total_oz \div (bag_lb * OZ_PER_LB)
           rem_oz == total_oz - full_bags * bag_lb * OZ_PER_LB
           rem_portions == RoundHalfEven(rem_oz, portion_oz)
           bag_word == IF full_bags = 1 THEN "bag" ELSE "bags"
       IN  IF full_bags = 0
           THEN name \o ": " \o Str(total_oz) \o " oz ("
                  \o Str(total_portions) \o " portions / "
                  \o Fixed2(total_oz, OZ_PER_LB) \o " lb)"
           ELSE IF rem_oz = 0
           THEN name \o ": " \o Str(full_bags) \o " " \o bag_word
           ELSE name \o ": " \o Str(full_bags) \o " " \o bag_word
                  \o " PLUS " \o Str(rem_oz) \o " oz ("
                  \o Str(rem_portions) \o " portions / "
                  \o Fixed2(rem_oz, OZ_PER_LB) \o " lb)"

\* the portion and the bag of the Red Pots and French Fries lines: 6 oz
\* portions, 6 lb bags
PORTION_OZ == 6
BAG_LB == 6

\* a helper is about to be called with one argument of its range
InitPrep ==
  /\ lines = <<>>
  /\ edit_idx = Nothing
  /\ req_plates = TRUE
  /\ req_utensils = TRUE
  /\ req_napkins = TRUE
  /\ headcount = 0
  /\ out = NoOutput
  /\ last = NoLast
  /\ prep \in
       {[fn |-> "friendly_round_up", arg |-> x, result |-> Nothing] :
          x \in 0..MaxHundredths}
         \cup {[fn |-> "bag_and_portion_line_from_oz", arg |-> oz,
                result |-> Nothing] : oz \in 1..MaxOz}

CallFriendlyRoundUp ==
  /\ prep.fn = "friendly_round_up"
  /\ prep.result = Nothing
  /\ prep' = [prep EXCEPT
                !.result = Some(friendly_round_up(prep.arg, INC, TINY_OVER))]
  /\ UNCHANGED <<lines, edit_idx, Settings, out, last>>

\* the Red Pots line of build_food_prep_lines, built under "if rp_oz:"
CallBagLine ==
  /\ prep.fn = "bag_and_portion_line_from_oz"
  /\ prep.result = Nothing
  /\ prep.arg # 0
  /\ prep' = [prep EXCEPT
                !.result = Some(bag_and_portion_line_from_oz(
                                  POTATOES_NAME, prep.arg, PORTION_OZ, BAG_LB))]
  /\ UNCHANGED <<lines, edit_idx, Settings, out, last>>

NextPrep ==
  \/ CallFriendlyRoundUp
  \/ CallBagLine

SpecPrep == InitPrep /\ [][NextPrep]_vars

(***************************************************************************)
(* Meat packs.  A piece weight is a fraction <<numerator, denominator>> of *)
(* an ounce: 0.8 is <<4, 5>>.  The "approximately" sign of the text in     *)
(* front of the pounds is written ~.                                       *)
(***************************************************************************)
\* largest piece count handed to containers_plus_remainder_from_pcs
MaxPcs == 910

SAUSAGE_LINK_OZ == <<4, 5>>
SAUSAGE_BAG_LB == 10

BACON_CASE_LB == 25
BACON_SERVINGS_PER_CASE == 225
BACON_SLICES_PER_SERVING == 2
BACON_SLICE_OZ ==
  <<BACON_CASE_LB * OZ_PER_LB,
    BACON_SERVINGS_PER_CASE * BACON_SLICES_PER_SERVING>>

\* containers_plus_remainder_from_pcs without the test for a clean
\* container count
containers_no_clean_test(name, pcs, pc_oz, container_lb, container_name) ==
  IF pcs = 0 THEN ""
  ELSE LET lb_num == pcs * pc_oz[1]
           lb_den == pc_oz[2] * OZ_PER_LB
           full == lb_num \div (lb_den * container_lb)
           rem_num == lb_num - full * container_lb * lb_den
           rem_pcs == RoundHalfEven(rem_num, pc_oz[1])
           word == IF full = 1 THEN container_name
                   ELSE container_name \o "s"
       IN  IF full = 0
           THEN name \o ": " \o Str(pcs) \o " pcs (~ "
                  \o Fixed2(lb_num, lb_den) \o " lb)"
           ELSE name \o ": " \o Str(full) \o " " \o word \o " PLUS "
                  \o Str(rem_pcs) \o " pcs (~ "
                  \o Fixed2(rem_num, lb_den) \o " lb)"

\* total_lb is lb_num / lb_den and rem_lb is rem_num / lb_den; rem_oz /
\* pc_oz is rem_num / pc_oz[1]
containers_plus_remainder_from_pcs(name, pcs, pc_oz, container_lb, container_name) ==
  IF pcs = 0 THEN ""
  ELSE LET lb_num == pcs * pc_oz[1]
           lb_den == pc_oz[2] * OZ_PER_LB
           full == lb_num \div (lb_den * container_lb)
           rem_num == lb_num - full * container_lb * lb_den
           rem_pcs == RoundHalfEven(rem_num, pc_oz[1])
           word == IF full = 1 THEN container_name
                   ELSE container_name \o "s"
       IN  IF full = 0
           THEN name \o ": " \o Str(pcs) \o " pcs (~ "
                  \o Fixed2(lb_num, lb_den) \o " lb)"
           ELSE IF 100 * rem_num <= lb_den
           THEN name \o ": " \o Str(full) \o " " \o word
           ELSE name \o ": " \o Str(full) \o " " \o word \o " PLUS "
                  \o Str(rem_pcs) \o " pcs (~ "
                  \o Fixed2(rem_num, lb_den) \o " lb)"

InitContainers ==
  /\ lines = <<>>
  /\ edit_idx = Nothing
  /\ req_plates = TRUE
  /\ req_utensils = TRUE
  /\ req_napkins = TRUE
  /\ headcount = 0
  /\ out = NoOutput
  /\ last = NoLast
  /\ prep \in
       {[fn |-> f, arg |-> n, result |-> Nothing] :
          f \in {"containers_plus_remainder_from_pcs(Bacon)",
                 "containers_plus_remainder_from_pcs(Pork Sausage Links)"},
          n \in 1..MaxPcs}

\* the Bacon line of build_food_prep_lines, built under "if bacon_pcs:"
CallBaconLine ==
  /\ prep.fn = "containers_plus_remainder_from_pcs(Bacon)"
  /\ prep.result = Nothing
  /\ prep.arg # 0
  /\ prep' = [prep EXCEPT
                !.result = Some(containers_plus_remainder_from_pcs(
                                  "Bacon", prep.arg, BACON_SLICE_OZ,
                                  BACON_CASE_LB, "case"))]
  /\ UNCHANGED <<lines, edit_idx, Settings, out, last>>

\* the Pork Sausage Links line of build_food_prep_lines, built under
\* "if sausage_pcs:"
CallSausageLine ==
  /\ prep.fn = "containers_plus_remainder_from_pcs(Pork Sausage Links)"
  /\ prep.result = Nothing
  /\ prep.arg # 0
  /\ prep' = [prep EXCEPT
                !.result = Some(containers_plus_remainder_from_pcs(
                                  "Pork Sausage Links", prep.arg,
                                  SAUSAGE_LINK_OZ, SAUSAGE_BAG_LB, "bag"))]
  /\ UNCHANGED <<lines, edit_idx, Settings, out, last>>

NextContainers ==
  \/ CallBaconLine
  \/ CallSausageLine

SpecContainers == InitContainers /\ [][NextContainers]_vars
(***************************************************************************)
(* Properties.                                                             *)
(***************************************************************************)
\* a step of an order handler: a drawn page, left pending by st.rerun()
HandlerStep == out # Pending /\ out' = Pending

AddOps == {"add_combo", "add_item", "add_alacarte"}

\* the positions of ls whose key has the canonical id of key
SameCanon(ls, key) ==
  {i \in 1..Len(ls) : build_canon_id(ls[i].key) = build_canon_id(key)}

\* ls without its position idx (counted from 0), written out by position
Without(ls, idx) ==
  [i \in 1..(Len(ls) - 1) |-> IF i <= idx THEN ls[i] ELSE ls[i + 1]]

\* the sum, bucket by bucket, of two dicts
PlusDict(a, b) ==
  [k \in (DOMAIN a) \cup (DOMAIN b) |-> Get(a, k) + Get(b, k)]

\* the sum of two results of the aggregation
PlusTotals(a, b) ==
  [error |-> a.error \/ b.error,
   total_servings |-> a.total_servings + b.total_servings,
   food |-> PlusDict(a.food, b.food),
   packaging |-> PlusDict(a.packaging, b.packaging),
   guestware |-> PlusDict(a.guestware, b.guestware),
   service |-> PlusDict(a.service, b.service),
   cond |-> PlusDict(a.cond, b.cond)]

\* C1: in every state the add, edit-save, remove and clear handlers reach
\* from the empty order, no two lines of the order have the same canonical
\* id (build_canon_id of their key).
C1_NoDuplicateCanonId ==
  \A i, j \in 1..Len(lines) :
    i # j => build_canon_id(lines[i].key) # build_canon_id(lines[j].key)

\* an add has just merged into an order of two lines
C1_Witness ==
  /\ last.op \in AddOps
  /\ last.merged
  /\ Len(lines) = 2

\* C2: an add handler whose line has the canonical id of a line already in
\* the order leaves the length of the list as it was, adds the new quantity
\* to that line and touches no other line; and the aggregation of the merged
\* line alone equals, total servings and bucket by bucket, the sum of the
\* aggregations of the two unmerged lines, and the aggregation of the list
\* of the two.
C2_MergeCorrect ==
  [][(HandlerStep /\ last'.op \in AddOps
        /\ SameCanon(lines, last'.line[1].key) # {})
       => LET new_line == last'.line[1]
          IN  /\ Len(lines') = Len(lines)
              /\ \E i \in SameCanon(lines, new_line.key) :
                   /\ lines'[i].qty = lines[i].qty + new_line.qty
                   /\ lines'[i].key = lines[i].key
                   /\ \A k \in 1..Len(lines) : k # i => lines'[k] = lines[k]
                   /\ compute_buckets_and_servings(<<lines'[i]>>)
                        = PlusTotals(compute_buckets_and_servings(<<lines[i]>>),
                                     compute_buckets_and_servings(<<new_line>>))
                   /\ compute_buckets_and_servings(<<lines'[i]>>)
                        = compute_buckets_and_servings(<<lines[i], new_line>>)
    ]_vars

\* Large Combo Box | Sampler Ham | French Toast was added with quantity 1
\* and again with quantity 2: one line of quantity 3
C2_Witness ==
  /\ last.op = "add_combo"
  /\ last.merged
  /\ last.line[1].qty = 2
  /\ lines = <<ComboLine("Large Combo Box", "Sampler Ham", "French Toast", 3)>>

\* C5: the quantity of every line of the order is an integer >= 1 in every
\* state the handlers reach with quantity inputs >= 1.
C5_QtyPositive ==
  \A i \in 1..Len(lines) : lines[i].qty \in Nat /\ lines[i].qty >= 1

\* a save has just put a quantity-1 line into the order
C5_Witness ==
  /\ last.op = "save"
  /\ ~last.merged
  /\ \E i \in 1..Len(lines) : lines[i].qty = 1

\* C6: Save on the row edit_idx with new key K and quantity q removes the
\* old line first.  If a line with K's canonical id is left, with quantity
\* p, the list is one shorter and that line has quantity p + q, the others
\* as they were; if none is left (also when K is the edited line's own key)
\* the list holds exactly one line for K, of quantity q, after the other
\* lines.
C6_EditIsRemoveThenMerge ==
  [][(HandlerStep /\ last'.op = "save")
       => LET idx == edit_idx[1]
              new_line == last'.line[1]
              rest == Without(lines, idx)
              M == SameCanon(rest, new_line.key)
          IN  IF M # {}
              THEN /\ Len(lines') = Len(lines) - 1
                   /\ \E j \in M :
                        /\ lines'[j].qty = rest[j].qty + new_line.qty
                        /\ lines'[j].key = rest[j].key
                        /\ \A k \in 1..Len(rest) : k # j => lines'[k] = rest[k]
              ELSE /\ Len(lines') = Len(lines)
                   /\ \A k \in 1..Len(rest) : lines'[k] = rest[k]
                   /\ SameCanon(lines', new_line.key) = {Len(lines')}
                   /\ lines'[Len(lines')].key = new_line.key
                   /\ lines'[Len(lines')].qty = new_line.qty
    ]_vars

\* a save has just merged the edited line into another line
C6_Witness ==
  /\ last.op = "save"
  /\ last.merged
  /\ Len(lines) = 1
  /\ lines[1].qty > last.line[1].qty
\* the lists with the lines of ls in another order
PermsOf(ls) ==
  {[i \in 1..Len(ls) |-> ls[f[i]]] : f \in Permutations(1..Len(ls))}

\* C3: for every list of order lines and every permutation of it,
\* compute_buckets_and_servings returns the same total servings and the
\* same five dicts.
C3_Commutative ==
  out.state = "shown" =>
    \A p \in PermsOf(lines) : compute_buckets_and_servings(p) = out.agg

\* the totals of a combo line followed by a sandwich line, which share
\* buckets, have been computed
C3_Witness ==
  /\ out.state = "shown"
  /\ Len(lines) = 2
  /\ lines[1].key.kind = "combo"
  /\ lines[2].key.item_id = "crispy_chx_sand_10"
  /\ out.agg.cond["Ketchup Packets"] = 20

ScaleDict(d, n) == [k \in DOMAIN d |-> n * d[k]]

\* n times a result of the aggregation
ScaleTotals(t, n) ==
  [error |-> t.error,
   total_servings |-> n * t.total_servings,
   food |-> ScaleDict(t.food, n),
   packaging |-> ScaleDict(t.packaging, n),
   guestware |-> ScaleDict(t.guestware, n),
   service |-> ScaleDict(t.service, n),
   cond |-> ScaleDict(t.cond, n)]

\* C4: for every catalog entry and every quantity n >= 1, the aggregation
\* of a single line of quantity n has the keys of, and n times the values
\* of, the aggregation of the same line with quantity 1, in all five dicts
\* and in the total servings.
C4_ScalingLinear ==
  (out.state = "shown" /\ Len(lines) = 1) =>
    out.agg = ScaleTotals(
                compute_buckets_and_servings(<<[lines[1] EXCEPT !.qty = 1]>>),
                lines[1].qty)

\* the totals of a French-toast combo of quantity 3 have been computed
C4_Witness ==
  /\ out.state = "shown"
  /\ Len(lines) = 1
  /\ lines[1].qty = 3
  /\ lines[1].key.griddle = "French Toast"
  /\ out.agg.total_servings > 0

ScenarioOneOrder ==
  <<ComboLine("Small Combo Box", "Bacon", "Buttermilk Pancakes", 2)>>

Has(d, k, v) == k \in DOMAIN d /\ d[k] = v

ScenarioOneTotals(t) ==
  /\ Has(t.food, "Scrambled Eggs (oz)", 80)
  /\ Has(t.food, "Red Pots (oz)", 120)
  /\ Has(t.food, "Bacon (pcs)", 40)
  /\ Has(t.food, "Buttermilk Pancakes (pcs)", 40)
  /\ Has(t.packaging, "Aluminum 1/2 Pans", 6)
  /\ Has(t.cond, "Butter Packets", 20)
  /\ Has(t.cond, "Syrup Packets", 20)
  /\ Has(t.cond, "Ketchup Packets", 20)
  /\ Has(t.service, "Serving Forks", 4)
  /\ Has(t.service, "Serving Tongs", 4)
  /\ Has(t.guestware, "Paper Plates", 20)

\* C7 as stated: with the plates toggle on, whatever the other toggles, the
\* page for [Small Combo Box, Bacon, Buttermilk Pancakes, qty 2] shows the
\* totals of scenario 1, Serving Forks 4 and Serving Tongs 4 among them.
C7_AsStated ==
  (out.state = "shown" /\ lines = ScenarioOneOrder /\ req_plates)
    => ScenarioOneTotals(out.totals)

\* C7: with the plates and the utensils toggles on, the page for [Small
\* Combo Box, Bacon, Buttermilk Pancakes, qty 2] shows Scrambled Eggs 80 oz,
\* Red Pots 120 oz, Bacon 40 pcs, Buttermilk Pancakes 40 pcs, Aluminum half
\* pans 6, Butter, Syrup and Ketchup Packets 20 each, Serving Forks 4,
\* Serving Tongs 4 and Paper Plates 20.
C7_ScenarioOne ==
  (out.state = "shown" /\ lines = ScenarioOneOrder
     /\ req_plates /\ req_utensils)
    => ScenarioOneTotals(out.totals)

\* the page of scenario 1 has been drawn with plates and utensils on and
\* napkins switched off
C7_Witness ==
  /\ out.state = "shown"
  /\ lines = ScenarioOneOrder
  /\ req_plates
  /\ req_utensils
  /\ ~req_napkins
  /\ "Paper Plates" \in DOMAIN out.totals.guestware

\* C8: the aggregation of [Steakburgers x1] gives food patties 10, buns 10,
\* tomato slices 20, red onion rings 20, lettuce leaves 10, pickle chips 50;
\* condiments mayo 10, ketchup 10, mustard 10; packaging half pans 2, soup
\* cups 3; service utensils tongs 2, spoons 2; and no other food, packaging,
\* condiment or service-utensil entry.
C8_ScenarioTwo ==
  (out.state = "shown" /\ Len(lines) = 1
     /\ lines[1].key.kind = "main" /\ lines[1].key.item_id = "steakburgers_10"
     /\ lines[1].qty = 1)
    => /\ out.agg.food =
            ("Steakburger Patties (pcs)" :> 10 @@ "Buns (pcs)" :> 10
             @@ "Tomato Slices (pcs)" :> 20 @@ "Red Onion Rings (pcs)" :> 20
             @@ "Lettuce Leaves (pcs)" :> 10 @@ "Pickle Chips (pcs)" :> 50)
       /\ out.agg.cond =
            ("Mayo Packets" :> 10 @@ "Ketchup Packets" :> 10
             @@ "Mustard Packets" :> 10)
       /\ out.agg.packaging =
            ("Aluminum 1/2 Pans" :> 2 @@ "Soup Cups (8 oz)" :> 3)
       /\ out.agg.service = ("Serving Tongs" :> 2 @@ "Serving Spoons" :> 2)

\* the totals of one Steakburgers line of quantity 1 have been computed
C8_Witness ==
  /\ out.state = "shown"
  /\ lines = <<MainLine("Steakburgers (10 pcs)", "Apple Juice", 1)>>
  /\ out.agg.total_servings = 10

\* the aggregation of the first i lines of the order; that of all the lines
\* is the one the page was drawn from
AggOfPrefix(i) ==
  IF i = Len(lines) THEN out.agg
  ELSE compute_buckets_and_servings(SubSeq(lines, 1, i))

\* what a line adds to the entry key of a bucket, from the aggregation
\* before it to the aggregation after it
Delta(before, after, bucket, key) ==
  Get(after[bucket], key) - Get(before[bucket], key)

\* a line leaves the entry key of a bucket as it found it, absent or not
Untouched(before, after, bucket, key) ==
  /\ Delta(before, after, bucket, key) = 0
  /\ key \in DOMAIN after[bucket] <=> key \in DOMAIN before[bucket]

\* C9: a combo line with French Toast adds nothing to the Buttermilk
\* Pancakes food bucket, adds (eggs + red-pots + French-toast pans) x qty
\* half pans and exactly the tier's powdered-sugar cups x qty; a combo line
\* with Buttermilk Pancakes adds nothing to the French Toast food bucket nor
\* to the Powdered Sugar Cups, and (eggs + red-pots + pancake pans) x qty
\* half pans.
C9_GriddleExclusive ==
  out.state = "shown" =>
    \A i \in 1..Len(lines) :
      lines[i].key.kind = "combo" =>
        LET spec == COMBO_TIERS[lines[i].key.item_id]
            qty == lines[i].qty
            before == AggOfPrefix(i - 1)
            after == AggOfPrefix(i)
        IN  IF lines[i].key.griddle = "French Toast"
            THEN /\ Untouched(before, after, "food",
                              "Buttermilk Pancakes (pcs)")
                 /\ Delta(before, after, "packaging", "Aluminum 1/2 Pans")
                      = (spec.half_pans_eggs + spec.half_pans_red_pots
                           + spec.half_pans_ft) * qty
                 /\ Delta(before, after, "cond", "Powdered Sugar Cups (2 oz)")
                      = spec.powdered_sugar_cups_2oz * qty
            ELSE /\ lines[i].key.griddle = "Buttermilk Pancakes"
                 /\ Untouched(before, after, "food", "French Toast (slices)")
                 /\ Untouched(before, after, "cond",
                              "Powdered Sugar Cups (2 oz)")
                 /\ Delta(before, after, "packaging", "Aluminum 1/2 Pans")
                      = (spec.half_pans_eggs + spec.half_pans_red_pots
                           + spec.half_pans_pancakes) * qty

\* a French-toast combo was aggregated after a line that had filled the
\* pancake bucket
C9_Witness ==
  /\ out.state = "shown"
  /\ Len(lines) = 2
  /\ lines[1].key.item_id = "pancakes_20"
  /\ lines[2].key.kind = "combo"
  /\ lines[2].key.griddle = "French Toast"
  /\ out.agg.food["Buttermilk Pancakes (pcs)"] = 20

PROTEIN_BUCKETS ==
  {"Bacon (pcs)", "Pork Sausage Links (pcs)", "Sampler Ham (pcs)"}

\* C10: every combo line adds protein_pcs x qty to exactly one of the three
\* protein food buckets, the one of its protein, and nothing to the other
\* two, together with one contribution of the tier's large plastic bases.
C10_OneProteinBucket ==
  out.state = "shown" =>
    \A i \in 1..Len(lines) :
      lines[i].key.kind = "combo" =>
        LET spec == COMBO_TIERS[lines[i].key.item_id]
            qty == lines[i].qty
            before == AggOfPrefix(i - 1)
            after == AggOfPrefix(i)
            fed == {b \in PROTEIN_BUCKETS :
                      Delta(before, after, "food", b) # 0}
        IN  /\ Cardinality(fed) = 1
            /\ fed = {lines[i].key.protein \o " (pcs)"}
            /\ \A b \in fed :
                 Delta(before, after, "food", b) = spec.protein_pcs * qty
            /\ \A b \in PROTEIN_BUCKETS \ fed :
                 Untouched(before, after, "food", b)
            /\ Delta(before, after, "packaging", "IHOP Large Plastic Base")
                 = spec.ihop_large_bases_protein * qty

\* a Sampler Ham combo was aggregated after a line that had filled the
\* bacon bucket
C10_Witness ==
  /\ out.state = "shown"
  /\ Len(lines) = 2
  /\ lines[1].key.item_id = "bacon_20"
  /\ lines[2].key.kind = "combo"
  /\ lines[2].key.protein = HAM_NAME
  /\ out.agg.packaging["IHOP Large Plastic Base"] = 2
BEVERAGE_IDS == {"cold_beverage", "coffee_box"}
SANDWICH_IDS ==
  {"steakburgers_10", "crispy_chx_sand_10", "grilled_chx_sand_10"}

\* the serving count the catalog gives one unit of a line's item; a
\* beverage counts for none
UnitServings(line) ==
  IF line.key.kind = "combo" THEN COMBO_TIERS[line.key.item_id].servings
  ELSE IF line.key.kind = "main"
  THEN IF line.key.item_id \in BEVERAGE_IDS THEN 0
       ELSE MAIN_SERVINGS[line.key.item_id]
  ELSE ALACARTE_LOOKUP[line.key.item_id].payload.servings

RECURSIVE SumServings(_)
SumServings(ls) ==
  IF ls = <<>> THEN 0
  ELSE UnitServings(Head(ls)) * Head(ls).qty + SumServings(Tail(ls))

IsBeverage(line) ==
  line.key.kind = "main" /\ line.key.item_id \in BEVERAGE_IDS

\* C11: total servings is the sum over the order lines of the catalog
\* entry's per-unit serving count times the line's quantity, cold-beverage
\* and coffee-box lines counting 0: one cold-beverage line plus one 10-piece
\* sandwich line give 10, and an order of beverage lines alone gives 0
\* whatever the quantities.
C11_TotalServings ==
  out.state = "shown" =>
    /\ out.agg.total_servings = SumServings(lines)
    /\ (\A i \in 1..Len(lines) : IsBeverage(lines[i]))
         => out.agg.total_servings = 0
    /\ (/\ Len(lines) = 2
        /\ \E i, j \in 1..2 :
             /\ lines[i].key.item_id = "cold_beverage"
             /\ lines[j].key.item_id \in SANDWICH_IDS
             /\ lines[i].qty = 1 /\ lines[j].qty = 1)
         => out.agg.total_servings = 10

\* the totals of a cold-beverage line followed by a sandwich line have been
\* computed
C11_Witness ==
  /\ out.state = "shown"
  /\ Len(lines) = 2
  /\ lines[1].key.item_id = "cold_beverage"
  /\ lines[2].key.item_id \in SANDWICH_IDS
  /\ out.agg.total_servings = 10
  /\ "Cold Cups" \in DOMAIN out.agg.guestware
\* the guestware entry name of the page follows the toggle on
GuestwareFollows(name, on) ==
  IF on /\ out.totals.total_servings > 0
  THEN Has(out.totals.guestware, name, out.totals.total_servings)
  ELSE name \notin DOMAIN out.totals.guestware

\* C12: after apply_guest_requested_toggles, each of Paper Plates (plates
\* toggle), Napkins (napkins toggle) and Wrapped Cutlery Sets (utensils
\* toggle) equals total servings when its toggle is on and total servings
\* > 0, and is absent when its toggle is off or total servings is 0; each
\* follows its own toggle alone.
C12_GuestwareScaling ==
  out.state = "shown" =>
    /\ out.totals.total_servings = out.agg.total_servings
    /\ GuestwareFollows("Paper Plates", req_plates)
    /\ GuestwareFollows("Napkins", req_napkins)
    /\ GuestwareFollows("Wrapped Cutlery Sets", req_utensils)

\* a page with servings has been drawn with the napkins toggle on and the
\* other two off
C12_Witness ==
  /\ out.state = "shown"
  /\ ~req_plates /\ req_napkins /\ ~req_utensils
  /\ out.totals.total_servings = 30
  /\ Has(out.totals.guestware, "Napkins", 30)
  /\ "Paper Plates" \notin DOMAIN out.totals.guestware
\* C13: for every order built from catalog items, after
\* apply_guest_requested_toggles the Serving Tongs, Serving Spoons and
\* Serving Forks entries are all absent when the utensils toggle is off, and
\* are exactly the values the aggregation produced when the utensils toggle
\* is on.
C13_ServingUtensilsFollowToggle ==
  out.state = "shown" =>
    IF req_utensils
    THEN out.totals.service = out.agg.service
    ELSE /\ "Serving Tongs" \notin DOMAIN out.totals.service
         /\ "Serving Spoons" \notin DOMAIN out.totals.service
         /\ "Serving Forks" \notin DOMAIN out.totals.service

\* a page for a beverage beside chicken strips has been drawn with the
\* utensils toggle on and the plates toggle off: tongs and spoons are shown
C13_Witness ==
  /\ out.state = "shown"
  /\ req_utensils /\ ~req_plates
  /\ Len(lines) = 2
  /\ lines[1].key.item_id = "coffee_box"
  /\ lines[2].key.item_id = "chicken_strips_40"
  /\ Has(out.totals.service, "Serving Tongs", 1)
  /\ Has(out.totals.service, "Serving Spoons", 3)
\* the item id of a line is in the catalog of the line's kind
Catalogued(line) ==
  \/ line.key.kind = "combo" /\ line.key.item_id \in DOMAIN COMBO_TIERS
  \/ line.key.kind = "main"
       /\ line.key.item_id \in {MAIN_ITEMS[i][1] : i \in 1..Len(MAIN_ITEMS)}
  \/ line.key.kind = "alacarte" /\ line.key.item_id \in ALACARTE_IDS

\* C14: aggregating an order with a line whose item id is not in the
\* catalog for its kind (combo, main or a la carte) ends in an error
\* outcome; the line is never absorbed as one that contributes nothing.
C14_UnknownFailsLoudly ==
  (out.state = "shown" /\ \E i \in 1..Len(lines) : ~Catalogued(lines[i]))
    => out.agg.error
\* the aggregated totals as the caller holds them after the call: the
\* handed dicts beside what else compute_buckets_and_servings returned
TotalsAfterCall ==
  [out.agg EXCEPT !.guestware = out.handed.guestware,
                  !.service = out.handed.service]

\* what the page would read if those same totals were handed to
\* apply_guest_requested_toggles once more, under the same toggles
AppliedAgain ==
  apply_guest_requested_toggles(TotalsAfterCall, req_plates, req_utensils,
                                req_napkins)

\* C15: derivations do not mutate their input: applying the guest-request
\* toggles leaves the guestware and service maps produced by
\* compute_buckets_and_servings unchanged and yields the augmented totals
\* as a new copy; so applying the derivation a second time to the same
\* aggregated totals gives the result of the first time.
C15_DerivationsDoNotMutate ==
  out.state = "shown" =>
    /\ out.handed.guestware = out.agg.guestware
    /\ out.handed.service = out.agg.service
    /\ AppliedAgain = out.totals
\* the five dicts of a result, each with the letter of its helper
BUCKET_LETTER ==
  [b \in {"food", "packaging", "guestware", "service", "cond"} |->
     CASE b = "food" -> "F" [] b = "packaging" -> "P"
       [] b = "guestware" -> "G" [] b = "service" -> "S" [] b = "cond" -> "C"]

\* among the calls ops one makes a strictly positive addition to key of
\* bucket
Contributes(ops, bucket, key) ==
  \E n \in 1..Len(ops) :
    /\ ops[n][1] = BUCKET_LETTER[bucket]
    /\ ops[n][2] = key
    /\ ops[n][3] > 0

\* C16: for every order, every key present in any of the five maps
\* compute_buckets_and_servings returns was contributed by at least one
\* line with a strictly positive amount, and no map holds a key with value
\* 0; a combo, whose serving_spoons is 0, creates no Serving Spoons entry.
C16_SparseTotals ==
  out.state = "shown" =>
    /\ LET ops == [i \in 1..Len(lines) |-> LineOps(lines[i])]
       IN  \A b \in DOMAIN BUCKET_LETTER :
             \A k \in DOMAIN out.agg[b] :
               /\ out.agg[b][k] > 0
               /\ \E i \in 1..Len(lines) : Contributes(ops[i], b, k)
    /\ (\A i \in 1..Len(lines) : lines[i].key.kind = "combo")
         => "Serving Spoons" \notin DOMAIN out.agg.service

\* the totals of an order of two combo boxes have been computed: forks and
\* tongs are there, spoons are not
C16_Witness ==
  /\ out.state = "shown"
  /\ Len(lines) = 2
  /\ lines[1].key.kind = "combo" /\ lines[2].key.kind = "combo"
  /\ lines[1].key.item_id # lines[2].key.item_id
  /\ "Serving Forks" \in DOMAIN out.agg.service
  /\ "Serving Spoons" \notin DOMAIN out.agg.service
\* the multiplier the tiers are said to scale the Small recipe by
TIER_FACTOR ==
  [t \in {"Small Combo Box", "Medium Combo Box", "Large Combo Box"} |->
     CASE t = "Small Combo Box" -> 1 [] t = "Medium Combo Box" -> 2
       [] t = "Large Combo Box" -> 4]

COMBO_FIELDS == DOMAIN COMBO_TIERS["Small Combo Box"]

\* the recipe fields that do not scale with the tier
UNSCALED_FIELDS == {"serving_forks", "serving_tongs"}

\* the fields of the tier's recipe in fs are the tier's multiple of Small's
Proportional(tier, fs) ==
  \A f \in fs :
    COMBO_TIERS[tier][f] = TIER_FACTOR[tier] * COMBO_TIERS["Small Combo Box"][f]

\* the aggregation of the Small Combo Box line with line's protein, griddle
\* and quantity
SmallTotals(line) ==
  compute_buckets_and_servings(
    <<ComboLine("Small Combo Box", line.key.protein, line.key.griddle,
                line.qty)>>)

OneComboShown ==
  out.state = "shown" /\ Len(lines) = 1 /\ lines[1].key.kind = "combo"

\* C17 as stated: for every resource field of the combo recipe, serving
\* utensils among them, Medium is exactly 2x and Large exactly 4x Small;
\* so are the totals of a combo line.
C17_AsStated ==
  OneComboShown =>
    /\ Proportional(lines[1].key.item_id, COMBO_FIELDS)
    /\ out.agg = ScaleTotals(SmallTotals(lines[1]),
                             TIER_FACTOR[lines[1].key.item_id])

\* C17: for every resource field of the combo recipe but serving_forks and
\* serving_tongs (servings, food, packaging, condiments, serving_spoons),
\* Medium is exactly 2x and Large exactly 4x Small, and so are the total
\* servings, food, packaging and condiments of a combo line; the serving
\* forks are 2, 2, 8 and the serving tongs 2, 2, 5 per box for Small,
\* Medium, Large.
C17_TierProportional ==
  OneComboShown =>
    LET tier == lines[1].key.item_id
        n == TIER_FACTOR[tier]
        small == SmallTotals(lines[1])
        forks == CASE tier = "Small Combo Box" -> 2
                   [] tier = "Medium Combo Box" -> 2
                   [] tier = "Large Combo Box" -> 8
        tongs == CASE tier = "Small Combo Box" -> 2
                   [] tier = "Medium Combo Box" -> 2
                   [] tier = "Large Combo Box" -> 5
    IN  /\ Proportional(tier, COMBO_FIELDS \ UNSCALED_FIELDS)
        /\ out.agg.total_servings = n * small.total_servings
        /\ out.agg.food = ScaleDict(small.food, n)
        /\ out.agg.packaging = ScaleDict(small.packaging, n)
        /\ out.agg.cond = ScaleDict(small.cond, n)
        /\ out.agg.guestware = small.guestware
        /\ out.agg.service =
             ("Serving Tongs" :> tongs * lines[1].qty
              @@ "Serving Forks" :> forks * lines[1].qty)

\* the totals of two Large Combo Boxes with French toast have been computed
C17_Witness ==
  /\ OneComboShown
  /\ lines[1].key.item_id = "Large Combo Box"
  /\ lines[1].key.griddle = "French Toast"
  /\ lines[1].qty = 2
  /\ out.agg.total_servings = 80
  /\ Has(out.agg.service, "Serving Forks", 16)
  /\ Has(out.agg.service, "Serving Tongs", 10)
  /\ Has(out.agg.cond, "Powdered Sugar Cups (2 oz)", 8)
\* C18: headcount is informational only: two runs with the same order
\* lines and the same three toggles but different headcounts show the same
\* total servings and the same five maps after the toggles are applied.
C18_HeadcountInformational ==
  [][(/\ headcount' # headcount
      /\ lines' = lines
      /\ <<req_plates', req_utensils', req_napkins'>>
           = <<req_plates, req_utensils, req_napkins>>
      /\ out.state = "shown"
      /\ out'.state = "shown")
       => out'.totals = out.totals
    ]_vars

\* a page has been drawn for a headcount other than 0, with the plates
\* toggle on: the plates are the servings of the order
C18_Witness ==
  /\ out.state = "shown"
  /\ headcount > 0
  /\ req_plates
  /\ out.totals.total_servings > headcount
  /\ Has(out.totals.guestware, "Paper Plates", out.totals.total_servings)
\* friendly_round_up has returned r for the argument x
Rounded(x, r) ==
  prep = [fn |-> "friendly_round_up", arg |-> x, result |-> Some(r)]

\* C19: friendly_round_up with increment 0.5 and tiny-over threshold 0.05,
\* on the grid of hundredths: the result is a multiple of 0.5; if x exceeds
\* the multiple of 0.5 just below it by at most 0.05 the result is that
\* lower multiple, otherwise it is the smallest multiple of 0.5 that is
\* >= x; so the result is never more than 0.05 below x.  5.01 -> 5.0,
\* 5.06 -> 5.5, 1.16 -> 1.5 and 4.0 -> 4.0.
C19_FriendlyRoundUp ==
  (prep.fn = "friendly_round_up" /\ prep.result # Nothing) =>
    LET x == prep.arg
        r == prep.result[1]
        lower == (x \div 50) * 50
    IN  /\ r % 50 = 0
        /\ IF x - lower <= 5 THEN r = lower
           ELSE r >= x /\ r - 50 < x
        /\ x - r <= 5
        /\ x = 501 => r = 500
        /\ x = 506 => r = 550
        /\ x = 116 => r = 150
        /\ x = 400 => r = 400
\* bag_and_portion_line_from_oz has been called for Red Pots
BagLineShown ==
  prep.fn = "bag_and_portion_line_from_oz" /\ prep.result # Nothing

\* sub occurs in the string s
Contains(s, sub) ==
  \E i \in 1..(Len(s) - Len(sub) + 1) : SubSeq(s, i, i + Len(sub) - 1) = sub

\* the string s begins with pre
StartsWith(s, pre) == Len(pre) <= Len(s) /\ SubSeq(s, 1, Len(pre)) = pre

\* the ounces of one 6 lb bag
BAG_OZ == BAG_LB * OZ_PER_LB

\* the plain total: the ounces, with their portions and pounds
PlainTotal(s, oz) == StartsWith(s, "Red Pots: " \o Str(oz) \o " oz (")

\* what the claim says of every total but 96 oz: 97 oz reads "1 bag PLUS
\* 1 oz"; a PLUS phrase appears only when the total strictly exceeds a
\* whole number of bags, and then full bags x 96 + the remainder ounces
\* shown is the total, the remainder less than one bag
OverflowPhrasing(oz, s) ==
  /\ oz = 97 => StartsWith(s, "Red Pots: 1 bag PLUS 1 oz (")
  /\ Contains(s, "PLUS") <=> (oz > BAG_OZ /\ oz % BAG_OZ # 0)
  /\ Contains(s, "PLUS") =>
       \E full \in 1..(oz \div BAG_OZ), rem \in 1..(BAG_OZ - 1) :
         /\ full * BAG_OZ + rem = oz
         /\ StartsWith(s, "Red Pots: " \o Str(full)
                            \o (IF full = 1 THEN " bag" ELSE " bags")
                            \o " PLUS " \o Str(rem) \o " oz (")
  /\ (oz > 0 /\ oz < BAG_OZ) => PlainTotal(s, oz)

\* C20 as stated: for a 96-oz bag, a total of exactly 96 oz is reported as
\* the plain total with no PLUS phrase, 97 oz as "1 bag PLUS 1 oz", and a
\* PLUS phrase appears only past a whole number of bags, with full bags x
\* 96 + remainder = total.
C20_AsStated ==
  BagLineShown =>
    /\ prep.arg = BAG_OZ =>
         (PlainTotal(prep.result[1], BAG_OZ)
            /\ ~Contains(prep.result[1], "PLUS"))
    /\ OverflowPhrasing(prep.arg, prep.result[1])

\* C20: for a 96-oz bag (6 lb, 6-oz portions), a total of exactly 96 oz is
\* reported as "1 bag", the bag count alone, with neither the ounce total
\* nor a PLUS phrase, as is every whole number of bags; 97 oz is reported
\* as "1 bag PLUS 1 oz"; a PLUS phrase appears only when the total strictly
\* exceeds a whole number of bags, and then full bags x 96 + the remainder
\* ounces shown equals the total, the remainder less than one bag.
C20_BagOverflowPhrasing ==
  BagLineShown =>
    /\ prep.arg = BAG_OZ => prep.result[1] = "Red Pots: 1 bag"
    /\ (prep.arg > 0 /\ prep.arg % BAG_OZ = 0) =>
         prep.result[1] =
           "Red Pots: " \o Str(prep.arg \div BAG_OZ)
             \o (IF prep.arg = BAG_OZ THEN " bag" ELSE " bags")
    /\ OverflowPhrasing(prep.arg, prep.result[1])

\* the line for 97 oz of Red Pots has been built
C20_Witness ==
  /\ BagLineShown
  /\ prep.arg = 97
  /\ prep.result[1] = "Red Pots: 1 bag PLUS 1 oz (0 portions / 0.06 lb)"
\* the text s reports n pieces of name with per pieces to the container
\* word: the piece count alone below one container, the container count
\* alone for a whole number of containers, else the containers PLUS the
\* pieces left over
ConservesPieces(s, name, n, per, word) ==
  LET count == Str(n \div per) \o " "
                 \o (IF n \div per = 1 THEN word ELSE word \o "s")
  IN  IF n < per
      THEN /\ StartsWith(s, name \o ": " \o Str(n) \o " pcs (")
           /\ ~Contains(s, "PLUS")
      ELSE IF n % per = 0
      THEN s = name \o ": " \o count
      ELSE StartsWith(s, name \o ": " \o count \o " PLUS "
                           \o Str(n % per) \o " pcs (")

\* C21: with P pieces per container (200 sausage links per 10-lb bag, 450
\* bacon slices per 25-lb case), containers_plus_remainder_from_pcs reports
\* for every piece count n >= 1 the plain piece count when n < P, exactly
\* n / P containers with no remainder phrase when n is a multiple of P, and
\* otherwise floor(n / P) containers PLUS (n mod P) pieces, so that
\* containers x P + remainder pieces is n.
C21_ContainersConservePieces ==
  (prep.result # Nothing /\ prep.arg >= 1) =>
    /\ prep.fn = "containers_plus_remainder_from_pcs(Bacon)" =>
         ConservesPieces(prep.result[1], "Bacon", prep.arg, 450, "case")
    /\ prep.fn = "containers_plus_remainder_from_pcs(Pork Sausage Links)" =>
         ConservesPieces(prep.result[1], "Pork Sausage Links", prep.arg, 200,
                         "bag")

\* the Bacon line for 455 slices has been built
C21_Witness ==
  /\ prep.fn = "containers_plus_remainder_from_pcs(Bacon)"
  /\ prep.arg = 455
  /\ prep.result = Some("Bacon: 1 case PLUS 5 pcs (~ 0.28 lb)")
\* the quantities of the main lines of ls with item id item, summed
RECURSIVE MainQty(_, _)
MainQty(ls, item) ==
  IF ls = <<>> THEN 0
  ELSE (IF ls[1].key.kind = "main" /\ ls[1].key.item_id = item
        THEN ls[1].qty ELSE 0)
       + MainQty(Tail(ls), item)

\* the count of k in the dict d, 0 for a name the dict does not hold
CountOf(d, k) == IF k \in DOMAIN d THEN d[k] ELSE 0

COLD_GUESTWARE == {"Cold Cups", "Cold Lids", "Straws"}
HOT_GUESTWARE == {"Hot Cups", "Hot Lids", "Sleeves", "Stirrers"}

\* C22: beverage guestware is always included and never touched by the
\* toggles: for every order and every setting of the plates, utensils and
\* napkins toggles, the totals of the page hold Cold Cups, Cold Lids and
\* Straws each at 10 x the total cold-beverage quantity and Hot Cups, Hot
\* Lids, Sleeves and Stirrers each at 10 x the coffee-box quantity (a name
\* with no entry counting as 0).
C22_BeverageGuestwareAlways ==
  out.state = "shown" =>
    /\ \A k \in COLD_GUESTWARE :
         CountOf(out.totals.guestware, k)
           = 10 * MainQty(lines, "cold_beverage")
    /\ \A k \in HOT_GUESTWARE :
         CountOf(out.totals.guestware, k) = 10 * MainQty(lines, "coffee_box")

\* a page for a cold beverage beside a coffee box has been drawn with all
\* three toggles off
C22_Witness ==
  /\ out.state = "shown"
  /\ ~req_plates /\ ~req_utensils /\ ~req_napkins
  /\ Len(lines) = 2
  /\ lines[1].key.item_id = "cold_beverage"
  /\ lines[2].key.item_id = "coffee_box"
  /\ Has(out.totals.guestware, "Straws", 10)
  /\ Has(out.totals.guestware, "Stirrers", 10)
  /\ DOMAIN out.totals.guestware = COLD_GUESTWARE \cup HOT_GUESTWARE
\* C23: the edit cursor stays valid: in every state reached by start-edit,
\* cancel, edit-save, remove_line and clear-order, edit_idx is None or an
\* index into the order lines, and a cursor that a step leaves in place
\* still designates the line the user chose to edit (removing a different
\* line never makes it point at another line or past the end of the list).
C23_EditCursorValid ==
  [][/\ edit_idx' # Nothing => edit_idx'[1] < Len(lines')
     /\ (edit_idx # Nothing /\ edit_idx' = edit_idx
           /\ edit_idx[1] < Len(lines)) =>
          /\ edit_idx'[1] < Len(lines')
          /\ lines'[edit_idx'[1] + 1].canon_id
               = lines[edit_idx[1] + 1].canon_id]_vars
====
